---- MODULE Spec2Model ----
(***************************************************************************)
(* UnityBackend (src/environments/unity_backend.py): the orchestrator that *)
(* drives several simulation replicas and presents their agents as one     *)
(* flat, globally indexed batch.                                           *)
(*                                                                         *)
(* Replica lists are 1-based sequences (env_idx + 1); local agent ids,     *)
(* global indices and list positions returned by dict lookups are the      *)
(* 0-based numbers of the source, shifted by one where a sequence is       *)
(* indexed.  A Python slot holding None is <<>>, a slot holding v is <<v>>.*)
(*                                                                         *)
(* Five specifications share the state:                                    *)
(*   Spec       reset and step over backends that keep to their contract;  *)
(*   FaultSpec  the same calls, the calls in which a backend raises or     *)
(*              reports an agent it did not have, and close;               *)
(*   AggSpec    _define_observation_space and aggregate_observations over  *)
(*              the component shapes a backend can declare;                *)
(*   SpaceSpec  compute_space_dimension and flatten_observations of        *)
(*              src/utils/gym_space.py over the spaces of the bounds;      *)
(*   HostSpec   the registry of the four hosting APIs (EnvGateway,         *)
(*              EnvHost, EnvAPI, WSEnvAPI) under make, lookup and close.   *)
(***************************************************************************)
EXTENDS Integers, Sequences, FiniteSets, TLC

\* ---------------------------------------------------------------- bounds
MaxEnvs == 2          \* replicas owned by one orchestrator (num_envs)
MaxAgents == 2        \* agents one replica may host
MaxTotalAgents == 2   \* agents over all replicas
MaxRank == 4          \* dimensions of one observation component
MaxComponents == 2    \* observation components of one behaviour
MaxCategories == 3    \* values of one discrete dimension
MaxKeys == 2          \* env_keys a hosting API is asked about, besides the empty one

\* -------------------------------------------------------------- helpers
None == <<>>
Some(v) == <<v>>

Range(n) == 0 .. (n - 1)

Min(S) == CHOOSE x \in S : \A y \in S : x <= y

ToSet(s) == {s[i] : i \in 1 .. Len(s)}

RECURSIVE Ascending(_)
Ascending(T) == IF T = {} THEN <<>> ELSE <<Min(T)>> \o Ascending(T \ {Min(T)})

Reverse(s) == [i \in 1 .. Len(s) |-> s[Len(s) + 1 - i]]

\* the agent_id arrays a DecisionSteps or TerminalSteps can carry for a
\* replica whose agents are S: any of the agents, each listed once, in
\* ascending or in descending id order (the order is the backend's choice)
IdLists(S) == UNION {{Ascending(T), Reverse(Ascending(T))} : T \in SUBSET S}

RECURSIVE SumSeq(_)
SumSeq(s) == IF s = <<>> THEN 0 ELSE s[1] + SumSeq(Tail(s))

RECURSIVE Prod(_)
Prod(shape) == IF shape = <<>> THEN 1 ELSE shape[1] * Prod(Tail(shape))

\* ------------------------------------------------------------ the state
VARIABLES
  observation_specs,     \* the shapes of self.specs[0].observation_specs, as the backend declares them
  observation_shapes,    \* self.observation_shapes (None: not set yet)
  envs,                  \* self.envs: the replica handles the orchestrator holds
  agent_per_envs,        \* self.agent_per_envs
  from_local_to_global,  \* self.from_local_to_global
  num_agents,            \* self.num_agents
  decision_agents,       \* self.decision_agents: one boolean mask per replica
  steps,                 \* per replica, the steps last read with get_steps
  set_actions,           \* per replica, the action tuple set during the last call (None: none set)
  close_calls,           \* per replica, how many times env.close() was called on it
  fault,                 \* what a backend did wrong during the last reset or step call (None: nothing)
  ret,                   \* what the last call returned or raised
  ops,                   \* the operations the last call invoked on replica backends, in order
  environments,          \* self.environments of a hosting API: env_key -> entry
  host                   \* the class of the hosting API ("none": no hosting API)

vars == <<observation_specs, observation_shapes, envs, agent_per_envs, from_local_to_global,
          num_agents, decision_agents, steps, set_actions, close_calls, fault, ret, ops,
          environments, host>>

\* the observation components of the worked example: one vector of width 2
\* and one of width 1
VectorSpecs == << <<2>>, <<1>> >>

\* the combined width taken as the sum of the last axes of the shapes
combined_dim_of_last_axes ==
  SumSeq([k \in 1 .. Len(observation_shapes) |-> observation_shapes[k][Len(observation_shapes[k])]])

combined_dim == SumSeq([k \in 1 .. Len(observation_shapes) |-> Prod(observation_shapes[k])])

\* ------------------------------------------------- the replica backends
\* What env.get_steps returns for one behaviour: a DecisionSteps and a
\* TerminalSteps, each with parallel arrays agent_id / obs / reward; obs is
\* a list with one array [agent, width] per observation component.  The
\* payloads are tags that differ for every (replica, kind, component,
\* position, element), so that a row routed to the wrong agent shows.
DECISION == 1
TERMINAL == 2

ObsVal(r, kind, k, p, j) == 10000 * r + 1000 * kind + 100 * k + 10 * p + j

RewVal(r, kind, p) == 100 * r + 10 * kind + p

\* the truncation flag of a terminal step: the episode of the agent at
\* position p was cut short (TerminalSteps.interrupted); a decision step
\* carries no such flag
InterruptedVal(r, kind, p) == kind = TERMINAL /\ (r + p) % 2 = 0

MakeSteps(r, kind, ids) ==
  [agent_id |-> ids,
   interrupted |-> [p \in 1 .. Len(ids) |-> InterruptedVal(r, kind, p)],
   obs      |-> [k \in 1 .. Len(observation_specs) |->
                   [p \in 1 .. Len(ids) |->
                      [j \in 1 .. Prod(observation_specs[k]) |-> ObsVal(r, kind, k, p, j)]]],
   reward   |-> [p \in 1 .. Len(ids) |-> RewVal(r, kind, p)]]

\* the results one replica with n registered agents can hold after env.step()
StepOutputs(r, n) ==
  {[decision_steps |-> MakeSteps(r, DECISION, d), terminal_steps |-> MakeSteps(r, TERMINAL, t)] :
     d \in IdLists(Range(n)), t \in IdLists(Range(n))}

\* the results one replica can hold after env.reset(): reset reads only the
\* decision steps
ResetOutputs(r, n) ==
  {[decision_steps |-> MakeSteps(r, DECISION, d), terminal_steps |-> MakeSteps(r, TERMINAL, <<>>)] :
     d \in IdLists(Range(n))}

\* the learner's action batch: one action per global index
ActionVal(g) == 7000 + g

ActionBatches(n) == {[i \in 1 .. n |-> ActionVal(i - 1)]}

\* ------------------------------------------------- _initialize_env_info
\* one pass of the loop over self.envs; counts[i] is len(decision_steps)
\* of replica i after its first reset
\* the loop of _initialize_env_info with global_idx = local_idx, the running
\* total left out
RECURSIVE initialize_env_info_no_offset(_, _, _)
initialize_env_info_no_offset(counts, i, acc) ==
  IF i > Len(counts) THEN [acc EXCEPT !.num_agents = acc.total_agents]
  ELSE LET n_agents == counts[i]
           local_to_global == [l \in 1 .. n_agents |-> l - 1]
       IN initialize_env_info_no_offset(counts, i + 1,
            [acc EXCEPT !.agent_per_envs = Append(@, n_agents),
                        !.decision_agents = Append(@, [l \in 1 .. n_agents |-> FALSE]),
                        !.from_local_to_global = Append(@, local_to_global),
                        !.total_agents = @ + n_agents])

RECURSIVE initialize_env_info(_, _, _)
initialize_env_info(counts, i, acc) ==
  IF i > Len(counts) THEN [acc EXCEPT !.num_agents = acc.total_agents]
  ELSE LET n_agents == counts[i]
           local_to_global == [l \in 1 .. n_agents |-> acc.total_agents + (l - 1)]
       IN initialize_env_info(counts, i + 1,
            [acc EXCEPT !.agent_per_envs = Append(@, n_agents),
                        !.decision_agents = Append(@, [l \in 1 .. n_agents |-> FALSE]),
                        !.from_local_to_global = Append(@, local_to_global),
                        !.total_agents = @ + n_agents])

EnvInfo(counts) ==
  initialize_env_info(counts, 1,
    [agent_per_envs |-> <<>>, decision_agents |-> <<>>, from_local_to_global |-> <<>>,
     total_agents |-> 0, num_agents |-> 0])

\* --------------------------------------------- _define_observation_space
\* the outcome of _define_observation_space for the declared component
\* shapes: a ValueError when some shape has three dimensions, else the
\* shapes and the combined width the orchestrator records
define_observation_space(shapes) ==
  IF \E k \in 1 .. Len(shapes) : Len(shapes[k]) = 3
  THEN [raised |-> TRUE, error |-> "ValueError", observation_shapes |-> None, combined_dim |-> 0]
  ELSE [raised |-> FALSE, error |-> "", observation_shapes |-> shapes,
        combined_dim |-> SumSeq([k \in 1 .. Len(shapes) |-> Prod(shapes[k])])]

\* the configuration of the worked example: two replicas, the first with
\* agents 0 and 1, the second with agent 0
Scenario == <<2, 1>>

\* the agent counts the replicas can report at construction: every list
\* within the bounds, and the worked example
CountLists ==
  {c \in [1 .. MaxEnvs -> 0 .. MaxAgents] : SumSeq(c) <= MaxTotalAgents} \cup {Scenario}

\* ----------------------------------------------- aggregate_observations
\* the loop of aggregate_observations without "offset += size": every
\* component is written from column 0
RECURSIVE aggregate_from_same_offset(_, _, _, _)
aggregate_from_same_offset(observations, k, offset, aggregated) ==
  IF k > Len(observations) \/ k > Len(observation_shapes) THEN aggregated
  ELSE LET size == Prod(observation_shapes[k])
           obs  == observations[k]
       IN aggregate_from_same_offset(observations, k + 1, offset,
            [a \in 1 .. Len(aggregated) |->
               [c \in 1 .. Len(aggregated[a]) |->
                  IF offset < c /\ c <= offset + size
                  THEN (IF Len(obs[a]) = 1 THEN obs[a][1] ELSE obs[a][c - offset])
                  ELSE aggregated[a][c]]])

\* the loop of aggregate_observations over zip(observations, self.observation_shapes)
RECURSIVE aggregate_from(_, _, _, _)
aggregate_from(observations, k, offset, aggregated) ==
  IF k > Len(observations) \/ k > Len(observation_shapes) THEN aggregated
  ELSE LET size == Prod(observation_shapes[k])
           obs  == observations[k]
       IN aggregate_from(observations, k + 1, offset + size,
            [a \in 1 .. Len(aggregated) |->
               [c \in 1 .. Len(aggregated[a]) |->
                  IF offset < c /\ c <= offset + size
                  THEN (IF Len(obs[a]) = 1 THEN obs[a][1] ELSE obs[a][c - offset])
                  ELSE aggregated[a][c]]])

\* the slice assignment raises ValueError when the rows of a component
\* are neither as wide as the slice nor of width 1 (numpy broadcasts a
\* single column over the slice); a component or a shape that zip leaves
\* unpaired is not looked at
aggregate_raises(observations) ==
  /\ Len(observations[1]) >= 1
  /\ \E k \in 1 .. Len(observations) :
       /\ k <= Len(observation_shapes)
       /\ Len(observations[k][1]) # Prod(observation_shapes[k])
       /\ Len(observations[k][1]) # 1

\* the shape of np.zeros((num_agents, combined_dim))
aggregated_shape(observations) == <<Len(observations[1]), combined_dim>>

aggregate_observations(observations) ==
  LET n          == Len(observations[1])
      aggregated == [a \in 1 .. n |-> [c \in 1 .. combined_dim |-> 0]]
  IN IF n < 1 THEN aggregated ELSE aggregate_from(observations, 1, 0, aggregated)

\* every list that takes its i-th element from S[i]
RECURSIVE Product(_, _)
Product(S, i) ==
  IF i = 0 THEN {<<>>} ELSE {Append(q, x) : q \in Product(S, i - 1), x \in S[i]}

\* what a loop over self.envs leaves in a per-replica list: the replicas the
\* loop reached hold the new value, the others keep theirs
Reached(old, new) == [r \in 1 .. Len(old) |-> IF r <= Len(new) THEN new[r] ELSE old[r]]

\* no replica was given actions
NoneSet == [r \in 1 .. Len(set_actions) |-> None]

\* mask[agent_id] = True without the zeros_like before it
mark_decision_agents_without_zeros(mask, agent_id) ==
  [l \in 1 .. Len(mask) |-> mask[l] \/ (l - 1) \in ToSet(agent_id)]

\* zeros_like(mask) followed by mask[agent_id] = True
mark_decision_agents(mask, agent_id) == [l \in 1 .. Len(mask) |-> (l - 1) \in ToSet(agent_id)]

\* {agent_id: idx for idx, agent_id in enumerate(ids)}: a later position wins
id_to_local(ids) ==
  [a \in ToSet(ids) |-> (CHOOSE p \in 1 .. Len(ids) :
                           ids[p] = a /\ \A q \in 1 .. Len(ids) : ids[q] = a => q <= p) - 1]

\* ------------------------------------------- calls on the replica backends
\* one operation invoked on the backend of a replica
Op(name, env) == [op |-> name, replica |-> env]

\* no hosting API holds the orchestrator
NoHost == environments = <<>> /\ host = "none"

\* the loop of reset over the first k replicas: env.reset() on each, and
\* env.get_steps() on the first read of them
RECURSIVE reset_ops(_, _)
reset_ops(k, read) ==
  IF k = 0 THEN <<>>
  ELSE reset_ops(k - 1, read) \o <<Op("reset", envs[k])>>
         \o (IF k <= read THEN <<Op("get_steps", envs[k])>> ELSE <<>>)

\* the first loop of step stepping only the replicas it set actions on
RECURSIVE dispatch_ops_skipping_idle(_, _)
dispatch_ops_skipping_idle(sent, k) ==
  IF k = 0 THEN <<>>
  ELSE dispatch_ops_skipping_idle(sent, k - 1)
         \o (IF sent[k] # None THEN <<Op("set_actions", envs[k]), Op("step", envs[k])>> ELSE <<>>)

\* the first loop of step over the first k replicas: env.set_actions() when
\* there are decision rows, then env.step() in any case
RECURSIVE dispatch_ops(_, _)
dispatch_ops(sent, k) ==
  IF k = 0 THEN <<>>
  ELSE dispatch_ops(sent, k - 1)
         \o (IF sent[k] # None THEN <<Op("set_actions", envs[k])>> ELSE <<>>)
         \o <<Op("step", envs[k])>>

\* the second loop of step over the first k replicas: env.get_steps(); the
\* writes into the batch for a replica follow its get_steps
collect_ops(k) == [r \in 1 .. k |-> Op("get_steps", envs[r])]

\* step as a single loop: each replica is stepped and read in turn
RECURSIVE step_ops_one_loop(_, _, _)
step_ops_one_loop(sent, stepped, read) ==
  IF stepped = 0 THEN <<>>
  ELSE step_ops_one_loop(sent, stepped - 1, read)
         \o (IF sent[stepped] # None THEN <<Op("set_actions", envs[stepped])>> ELSE <<>>)
         \o <<Op("step", envs[stepped])>>
         \o (IF stepped <= read THEN <<Op("get_steps", envs[stepped])>> ELSE <<>>)

\* the two loops of step, the first having reached replica stepped and the
\* second replica read
step_ops(sent, stepped, read) == dispatch_ops(sent, stepped) \o collect_ops(read)

\* the loop of close
close_ops(handles) == [i \in 1 .. Len(handles) |-> Op("close", handles[i])]

\* ---------------------------------------------------------------- reset
\* for idx, agent_id in enumerate(decision_steps.agent_id): observations[global_idx] = obs[idx]
RECURSIVE reset_fill(_, _, _, _, _)
reset_fill(observations, env_idx, agent_id, obs, idx) ==
  IF idx > Len(agent_id) THEN observations
  ELSE LET global_idx == from_local_to_global[env_idx][agent_id[idx] + 1]
       IN reset_fill([observations EXCEPT ![global_idx + 1] = Some(obs[idx])],
                     env_idx, agent_id, obs, idx + 1)

\* the loop over self.envs in reset
RECURSIVE reset_from(_, _, _)
reset_from(outs, env_idx, observations) ==
  IF env_idx > Len(outs) THEN observations
  ELSE LET decision_steps == outs[env_idx].decision_steps
           obs == aggregate_observations(decision_steps.obs)
       IN reset_from(outs, env_idx + 1,
                     reset_fill(observations, env_idx, decision_steps.agent_id, obs, 1))

EmptyDict == <<>>

\* a reset call in which no backend raises
Reset ==
  \E outs \in Product([r \in 1 .. Len(envs) |-> ResetOutputs(envs[r], agent_per_envs[r])],
                      Len(envs)) :
    /\ steps' = Reached(steps, outs)
    /\ decision_agents' = Reached(decision_agents,
                             [r \in 1 .. Len(envs) |->
                                mark_decision_agents(decision_agents[r], outs[r].decision_steps.agent_id)])
    /\ ret' = [kind |-> "reset",
               observations |-> reset_from(outs, 1, [g \in 1 .. num_agents |-> None]),
               info |-> EmptyDict]
    /\ ops' = reset_ops(Len(envs), Len(envs))
    /\ set_actions' = NoneSet
    /\ fault' = None
    /\ UNCHANGED <<environments, host, observation_specs, observation_shapes, envs, agent_per_envs,
                   from_local_to_global, num_agents, close_calls>>

\* ----------------------------------------------------------------- step
init_transitions ==
  [observations       |-> [g \in 1 .. num_agents |-> None],
   rewards            |-> [g \in 1 .. num_agents |-> None],
   terminated         |-> [g \in 1 .. num_agents |-> None],
   truncated          |-> [g \in 1 .. num_agents |-> None],
   final_observations |-> [g \in 1 .. num_agents |-> None]]

\* env_actions used whole, the decision mask ignored
select_by_mask_all(env_actions, decision_check, l) == env_actions

\* env_actions[decision_check]: the rows whose mask entry is true, in
\* ascending local id
RECURSIVE select_by_mask(_, _, _)
select_by_mask(env_actions, decision_check, l) ==
  IF l > Len(decision_check) THEN <<>>
  ELSE (IF decision_check[l] THEN <<env_actions[l]>> ELSE <<>>)
       \o select_by_mask(env_actions, decision_check, l + 1)

\* _create_action_tuple for a continuous (Box) action space: one row per agent
create_action_tuple(actions) ==
  [continuous |-> [i \in 1 .. Len(actions) |-> <<actions[i]>>]]

\* the first loop of step: what set_actions receives for each replica
RECURSIVE dispatch_from(_, _, _, _)
dispatch_from(actions, env_idx, action_offset, sent) ==
  IF env_idx > Len(envs) THEN sent
  ELSE LET num_agents_in_env == agent_per_envs[env_idx]
           env_actions == SubSeq(actions, action_offset + 1, action_offset + num_agents_in_env)
           dec_actions == select_by_mask(env_actions, decision_agents[env_idx], 1)
       IN dispatch_from(actions, env_idx + 1, action_offset + num_agents_in_env,
            Append(sent, IF Len(dec_actions) > 0 THEN Some(create_action_tuple(dec_actions))
                         ELSE None))

common_agent_ids(decision_steps, terminal_steps) ==
  ToSet(decision_steps.agent_id) \cap ToSet(terminal_steps.agent_id)

\* decision_only without the subtraction of common
decision_only_agent_ids_with_common(decision_steps, terminal_steps) ==
  ToSet(decision_steps.agent_id)

decision_only_agent_ids(decision_steps, terminal_steps) ==
  ToSet(decision_steps.agent_id) \ common_agent_ids(decision_steps, terminal_steps)

terminal_only_agent_ids(decision_steps, terminal_steps) ==
  ToSet(terminal_steps.agent_id) \ common_agent_ids(decision_steps, terminal_steps)

\* the common block taking the reward of the decision step
write_common_decision_reward(b, env_idx, out, dec_obs, term_obs, agent_id) ==
  LET dec_local_idx  == id_to_local(out.decision_steps.agent_id)[agent_id]
      term_local_idx == id_to_local(out.terminal_steps.agent_id)[agent_id]
      global_idx     == from_local_to_global[env_idx][agent_id + 1]
  IN [b EXCEPT !.final_observations[global_idx + 1] = Some(term_obs[term_local_idx + 1]),
               !.observations[global_idx + 1] = Some(dec_obs[dec_local_idx + 1]),
               !.rewards[global_idx + 1] = Some(out.decision_steps.reward[dec_local_idx + 1]),
               !.terminated[global_idx + 1] = Some(TRUE),
               !.truncated[global_idx + 1] = Some(FALSE)]

\* one pass of "for agent_id in common_agent_ids"; float(reward) widens the
\* backend's float32 to a Python float and keeps its value
write_common(b, env_idx, out, dec_obs, term_obs, agent_id) ==
  LET dec_local_idx  == id_to_local(out.decision_steps.agent_id)[agent_id]
      term_local_idx == id_to_local(out.terminal_steps.agent_id)[agent_id]
      global_idx     == from_local_to_global[env_idx][agent_id + 1]
  IN [b EXCEPT !.final_observations[global_idx + 1] = Some(term_obs[term_local_idx + 1]),
               !.observations[global_idx + 1] = Some(dec_obs[dec_local_idx + 1]),
               !.rewards[global_idx + 1] = Some(out.terminal_steps.reward[term_local_idx + 1]),
               !.terminated[global_idx + 1] = Some(TRUE),
               !.truncated[global_idx + 1] = Some(FALSE)]

\* the decision-only block writing at the local id, the index map not used
write_decision_only_local_index(b, env_idx, out, dec_obs, term_obs, agent_id) ==
  LET dec_local_idx == id_to_local(out.decision_steps.agent_id)[agent_id]
      global_idx    == agent_id
  IN [b EXCEPT !.observations[global_idx + 1] = Some(dec_obs[dec_local_idx + 1]),
               !.rewards[global_idx + 1] = Some(out.decision_steps.reward[dec_local_idx + 1]),
               !.terminated[global_idx + 1] = Some(FALSE),
               !.truncated[global_idx + 1] = Some(FALSE)]

\* one pass of "for agent_id in decision_only_agent_ids"
write_decision_only(b, env_idx, out, dec_obs, term_obs, agent_id) ==
  LET dec_local_idx == id_to_local(out.decision_steps.agent_id)[agent_id]
      global_idx    == from_local_to_global[env_idx][agent_id + 1]
  IN [b EXCEPT !.observations[global_idx + 1] = Some(dec_obs[dec_local_idx + 1]),
               !.rewards[global_idx + 1] = Some(out.decision_steps.reward[dec_local_idx + 1]),
               !.terminated[global_idx + 1] = Some(FALSE),
               !.truncated[global_idx + 1] = Some(FALSE)]

\* the terminal-only block also storing the terminal observation as the
\* final observation
write_terminal_only_with_final(b, env_idx, out, dec_obs, term_obs, agent_id) ==
  LET dec_local_idx == id_to_local(out.terminal_steps.agent_id)[agent_id]
      global_idx    == from_local_to_global[env_idx][agent_id + 1]
  IN [b EXCEPT !.final_observations[global_idx + 1] = Some(term_obs[dec_local_idx + 1]),
               !.observations[global_idx + 1] = Some(term_obs[dec_local_idx + 1]),
               !.rewards[global_idx + 1] = Some(out.terminal_steps.reward[dec_local_idx + 1]),
               !.terminated[global_idx + 1] = Some(TRUE),
               !.truncated[global_idx + 1] = Some(FALSE)]

\* the terminal-only block with the flags of the decision-only block
write_terminal_only_not_terminated(b, env_idx, out, dec_obs, term_obs, agent_id) ==
  LET dec_local_idx == id_to_local(out.terminal_steps.agent_id)[agent_id]
      global_idx    == from_local_to_global[env_idx][agent_id + 1]
  IN [b EXCEPT !.observations[global_idx + 1] = Some(term_obs[dec_local_idx + 1]),
               !.rewards[global_idx + 1] = Some(out.terminal_steps.reward[dec_local_idx + 1]),
               !.terminated[global_idx + 1] = Some(FALSE),
               !.truncated[global_idx + 1] = Some(FALSE)]

\* one pass of "for agent_id in terminal_only_agent_ids"
write_terminal_only(b, env_idx, out, dec_obs, term_obs, agent_id) ==
  LET dec_local_idx == id_to_local(out.terminal_steps.agent_id)[agent_id]
      global_idx    == from_local_to_global[env_idx][agent_id + 1]
  IN [b EXCEPT !.observations[global_idx + 1] = Some(term_obs[dec_local_idx + 1]),
               !.rewards[global_idx + 1] = Some(out.terminal_steps.reward[dec_local_idx + 1]),
               !.terminated[global_idx + 1] = Some(TRUE),
               !.truncated[global_idx + 1] = Some(FALSE)]

\* the three "for agent_id in ..." loops, over ids in ascending order;
\* which = 1 common, 2 decision only, 3 terminal only
RECURSIVE write_ids(_, _, _, _, _, _, _)
write_ids(b, env_idx, out, dec_obs, term_obs, ids, which) ==
  IF ids = {} THEN b
  ELSE LET agent_id == Min(ids)
           nb == CASE which = 1 -> write_common(b, env_idx, out, dec_obs, term_obs, agent_id)
                   [] which = 2 -> write_decision_only(b, env_idx, out, dec_obs, term_obs, agent_id)
                   [] OTHER     -> write_terminal_only(b, env_idx, out, dec_obs, term_obs, agent_id)
       IN write_ids(nb, env_idx, out, dec_obs, term_obs, ids \ {agent_id}, which)

\* the body of the second loop of step for one replica
reconcile(b, env_idx, out) ==
  LET dec_obs  == aggregate_observations(out.decision_steps.obs)
      term_obs == aggregate_observations(out.terminal_steps.obs)
      b1 == write_ids(b, env_idx, out, dec_obs, term_obs,
                      common_agent_ids(out.decision_steps, out.terminal_steps), 1)
      b2 == write_ids(b1, env_idx, out, dec_obs, term_obs,
                      decision_only_agent_ids(out.decision_steps, out.terminal_steps), 2)
  IN write_ids(b2, env_idx, out, dec_obs, term_obs,
               terminal_only_agent_ids(out.decision_steps, out.terminal_steps), 3)

\* the second loop of step
RECURSIVE collect_from(_, _, _)
collect_from(outs, env_idx, b) ==
  IF env_idx > Len(outs) THEN b
  ELSE collect_from(outs, env_idx + 1, reconcile(b, env_idx, outs[env_idx]))

\* step rebuilding the index map from the agents the replicas report
env_info_rebuilt_by_step(outs) ==
  EnvInfo([r \in 1 .. Len(outs) |-> Len(outs[r].decision_steps.agent_id)])

\* the fields of _initialize_env_info after a step call that read outs from
\* the replicas: step reads them and assigns none of them
env_info_after_step(outs) ==
  [agent_per_envs |-> agent_per_envs,
   from_local_to_global |-> from_local_to_global,
   num_agents |-> num_agents]

\* a step call in which no backend raises
Step ==
  \E actions \in ActionBatches(num_agents) :
  \E sent \in {dispatch_from(actions, 1, 0, <<>>)} :
  \E outs \in Product([r \in 1 .. Len(envs) |-> StepOutputs(envs[r], agent_per_envs[r])],
                      Len(envs)) :
    \E b \in {collect_from(outs, 1, init_transitions)} :
       /\ set_actions' = Reached(NoneSet, sent)
       /\ steps' = Reached(steps, outs)
       /\ decision_agents' = Reached(decision_agents,
                                [r \in 1 .. Len(envs) |->
                                   mark_decision_agents(decision_agents[r], outs[r].decision_steps.agent_id)])
       /\ ret' = [kind |-> "step",
                  observations |-> b.observations,
                  rewards |-> b.rewards,
                  terminated |-> b.terminated,
                  truncated |-> b.truncated,
                  info |-> [final_observation |-> b.final_observations]]
       /\ ops' = step_ops(sent, Len(envs), Len(envs))
       /\ fault' = None
       /\ \E info \in {env_info_after_step(outs)} :
            /\ agent_per_envs' = info.agent_per_envs
            /\ from_local_to_global' = info.from_local_to_global
            /\ num_agents' = info.num_agents
       /\ UNCHANGED <<environments, host, observation_specs, observation_shapes, envs, close_calls>>

\* ------------------------------------------------------ the specification
\* the state after __init__: the index map is built from the counts the
\* replicas report; nothing has been returned to the learner yet
Constructed(counts) ==
  LET info == EnvInfo(counts)
  IN /\ observation_specs = VectorSpecs
     /\ observation_shapes = define_observation_space(VectorSpecs).observation_shapes
     /\ envs = [r \in 1 .. Len(counts) |-> r]
     /\ close_calls = [r \in 1 .. Len(counts) |-> 0]
     /\ fault = None
     /\ agent_per_envs = info.agent_per_envs
     /\ from_local_to_global = info.from_local_to_global
     /\ num_agents = info.num_agents
     /\ decision_agents = info.decision_agents
     /\ steps = [r \in 1 .. Len(counts) |->
                   [decision_steps |-> MakeSteps(r, DECISION, [l \in 1 .. counts[r] |-> l - 1]),
                    terminal_steps |-> MakeSteps(r, TERMINAL, <<>>)]]
     /\ set_actions = [r \in 1 .. Len(counts) |-> None]
     /\ ret = [kind |-> "none"]
     /\ ops = <<>>
     /\ NoHost

Init == \E counts \in CountLists : Constructed(counts)

Next == Reset \/ Step

Spec == Init /\ [][Next]_vars

\* ------------------------------------------- backends that fail or change
\* The replica backends are outside the orchestrator: any call on one may
\* raise, and a replica may report an agent id it did not have when the
\* orchestrator was constructed.
BackendError == [type |-> "UnityEnvironmentException"]

IndexError == [type |-> "IndexError"]

\* "except Exception as e: logging.error(...); raise e" of reset
reset_except(e) == [kind |-> "raise", call |-> "reset", error |-> e]

\* the same handler after the first loop of step
dispatch_except(e) == [kind |-> "raise", call |-> "step", error |-> e]

\* the handler after the second loop of step swallowing the exception: step
\* goes on to return the arrays as far as they were filled
collect_except_returns_partial(e, b) ==
  [kind |-> "step",
   observations |-> b.observations,
   rewards |-> b.rewards,
   terminated |-> b.terminated,
   truncated |-> b.truncated,
   info |-> [final_observation |-> b.final_observations]]

\* the same handler after the second loop of step; b is the arrays as far
\* as the loop had filled them, locals the exception leaves behind
collect_except(e, b) == [kind |-> "raise", call |-> "step", error |-> e]

\* decision_agents[env_idx][agent_id] = True raises IndexError when an id
\* lies outside the mask
mark_raises(mask, agent_id) == \E a \in ToSet(agent_id) : a >= Len(mask)

\* from_local_to_global[env_idx][agent_id] raises IndexError for an id
\* outside the list
lookup_raises(env_idx, agent_id) ==
  \E a \in ToSet(agent_id) : a >= Len(from_local_to_global[env_idx])

\* the steps of a replica with n registered agents in which one more
\* agent, with the next free id n, shows up in the list of the given kind,
\* the registered agents all asking for a decision
StraySteps(r, n, kind) ==
  LET registered == [l \in 1 .. n |-> l - 1]
  IN IF kind = DECISION
     THEN [decision_steps |-> MakeSteps(r, DECISION, Append(registered, n)),
           terminal_steps |-> MakeSteps(r, TERMINAL, <<>>)]
     ELSE [decision_steps |-> MakeSteps(r, DECISION, registered),
           terminal_steps |-> MakeSteps(r, TERMINAL, <<n>>)]

\* the same steps without the new agent
RegisteredSteps(r, n) ==
  [decision_steps |-> MakeSteps(r, DECISION, [l \in 1 .. n |-> l - 1]),
   terminal_steps |-> MakeSteps(r, TERMINAL, <<>>)]

\* the masks after the second loop of step (or the loop of reset) went
\* through the replicas of outs
marked(outs) ==
  [r \in 1 .. Len(outs) |-> mark_decision_agents(decision_agents[r], outs[r].decision_steps.agent_id)]

\* np.zeros_like(mask)
zeros_like(mask) == [l \in 1 .. Len(mask) |-> FALSE]

\* a reset call in which env.reset() of replica k raises (env.get_steps()
\* raising instead leaves the orchestrator in the same state)
ResetRaisesInBackend ==
  \E k \in 1 .. Len(envs) :
  \E at \in {"env.reset"} :
  \E before \in Product([r \in 1 .. (k - 1) |-> ResetOutputs(envs[r], agent_per_envs[r])], k - 1) :
    /\ steps' = Reached(steps, before)
    /\ decision_agents' = Reached(decision_agents, marked(before))
    /\ ret' = reset_except(BackendError)
    /\ ops' = reset_ops(k, k - 1)
    /\ set_actions' = NoneSet
    /\ fault' = Some([call |-> "reset", replica |-> k, at |-> at])
    /\ UNCHANGED <<environments, host, observation_specs, observation_shapes, envs, agent_per_envs,
                   from_local_to_global, num_agents, close_calls>>

\* a reset call after which replica k reports an agent it did not have
ResetRaisesOnAgentId ==
  \E k \in 1 .. Len(envs) :
  \E before \in Product([r \in 1 .. (k - 1) |-> ResetOutputs(envs[r], agent_per_envs[r])], k - 1) :
    \E got \in {StraySteps(envs[k], agent_per_envs[k], DECISION)} :
      /\ mark_raises(decision_agents[k], got.decision_steps.agent_id)
      /\ steps' = Reached(steps, Append(before, got))
      /\ decision_agents' = Reached(decision_agents,
                                    Append(marked(before), zeros_like(decision_agents[k])))
      /\ ret' = reset_except(IndexError)
      /\ ops' = reset_ops(k, k)
      /\ set_actions' = NoneSet
      /\ fault' = Some([call |-> "reset", replica |-> k, at |-> "agent_id"])
      /\ UNCHANGED <<environments, host, observation_specs, observation_shapes, envs, agent_per_envs,
                     from_local_to_global, num_agents, close_calls>>

\* a step call in which env.step() of replica k raises
StepRaisesInDispatch ==
  \E actions \in ActionBatches(num_agents) :
  \E k \in 1 .. Len(envs) :
    /\ set_actions' = Reached(NoneSet, SubSeq(dispatch_from(actions, 1, 0, <<>>), 1, k))
    /\ ops' = step_ops(dispatch_from(actions, 1, 0, <<>>), k, 0)
    /\ ret' = dispatch_except(BackendError)
    /\ fault' = Some([call |-> "step", replica |-> k, at |-> "env.step"])
    /\ \E info \in {env_info_after_step(<<>>)} :
         /\ agent_per_envs' = info.agent_per_envs
         /\ from_local_to_global' = info.from_local_to_global
         /\ num_agents' = info.num_agents
    /\ UNCHANGED <<environments, host, observation_specs, observation_shapes, envs, decision_agents, steps, close_calls>>

\* a step call in which env.get_steps() of replica k raises
StepRaisesInGetSteps ==
  \E actions \in ActionBatches(num_agents) :
  \E sent \in {dispatch_from(actions, 1, 0, <<>>)} :
  \E k \in 1 .. Len(envs) :
  \E before \in Product([r \in 1 .. (k - 1) |-> StepOutputs(envs[r], agent_per_envs[r])], k - 1) :
    \E b \in {collect_from(before, 1, init_transitions)} :
      /\ set_actions' = Reached(NoneSet, sent)
      /\ steps' = Reached(steps, before)
      /\ decision_agents' = Reached(decision_agents, marked(before))
      /\ ops' = step_ops(sent, Len(envs), k)
      /\ ret' = collect_except(BackendError, b)
      /\ fault' = Some([call |-> "step", replica |-> k, at |-> "get_steps"])
      /\ \E info \in {env_info_after_step(before)} :
           /\ agent_per_envs' = info.agent_per_envs
           /\ from_local_to_global' = info.from_local_to_global
           /\ num_agents' = info.num_agents
      /\ UNCHANGED <<environments, host, observation_specs, observation_shapes, envs, close_calls>>

\* a step call in which replica k reports an agent it did not have, in its
\* decision steps (the mask assignment raises) or in its terminal steps
\* (the index map lookup of the terminal-only block raises, after the
\* agents with smaller ids were written)
StepRaisesOnAgentId ==
  \E actions \in ActionBatches(num_agents) :
  \E sent \in {dispatch_from(actions, 1, 0, <<>>)} :
  \E k \in 1 .. Len(envs) :
  \E kind \in {DECISION, TERMINAL} :
  \E before \in Product([r \in 1 .. (k - 1) |-> StepOutputs(envs[r], agent_per_envs[r])], k - 1) :
    \E got \in {StraySteps(envs[k], agent_per_envs[k], kind)} :
    \E b \in {IF kind = DECISION THEN collect_from(before, 1, init_transitions)
              ELSE reconcile(collect_from(before, 1, init_transitions), k,
                             RegisteredSteps(envs[k], agent_per_envs[k]))} :
      /\ IF kind = DECISION THEN mark_raises(decision_agents[k], got.decision_steps.agent_id)
         ELSE lookup_raises(k, got.terminal_steps.agent_id)
      /\ set_actions' = Reached(NoneSet, sent)
      /\ steps' = Reached(steps, Append(before, got))
      /\ decision_agents' = Reached(decision_agents,
                               Append(marked(before),
                                      IF kind = DECISION THEN zeros_like(decision_agents[k])
                                      ELSE mark_decision_agents(decision_agents[k],
                                                                got.decision_steps.agent_id)))
      /\ ops' = step_ops(sent, Len(envs), k)
      /\ ret' = collect_except(IndexError, b)
      /\ fault' = Some([call |-> "step", replica |-> k, at |-> "agent_id"])
      /\ \E info \in {env_info_after_step(Append(before, got))} :
           /\ agent_per_envs' = info.agent_per_envs
           /\ from_local_to_global' = info.from_local_to_global
           /\ num_agents' = info.num_agents
      /\ UNCHANGED <<environments, host, observation_specs, observation_shapes, envs, close_calls>>

\* ---------------------------------------------------------------- close
\* close with "self.envs = []" keeping the first handle
close_keeps_first_handle(handles) == [closed |-> handles, envs |-> SubSeq(handles, 1, 1)]

\* close with "self.envs = []" left out
close_keeps_handles(handles) == [closed |-> handles, envs |-> handles]

\* close: env.close() on every handle held, then self.envs = []
close(handles) == [closed |-> handles, envs |-> <<>>]

\* a close call; it returns nothing, ret records how many handles it closed
Close ==
  \E c \in {close(envs)} :
    /\ close_calls' = [r \in 1 .. Len(close_calls) |->
                         IF r \in ToSet(c.closed) THEN close_calls[r] + 1 ELSE close_calls[r]]
    /\ envs' = c.envs
    /\ ops' = close_ops(c.closed)
    /\ ret' = [kind |-> "close", closed |-> Len(c.closed)]
    /\ set_actions' = NoneSet
    /\ UNCHANGED <<environments, host, observation_specs, observation_shapes, agent_per_envs, from_local_to_global,
                   num_agents, decision_agents, steps, fault>>

\* the orchestrator over backends that may fail: replicas of at most one
\* agent each
FaultCountLists == [1 .. MaxEnvs -> {0, 1}]

FaultInit == \E counts \in FaultCountLists : Constructed(counts)

FaultNext ==
  \/ Reset
  \/ Step
  \/ ResetRaisesInBackend
  \/ ResetRaisesOnAgentId
  \/ StepRaisesInDispatch
  \/ StepRaisesInGetSteps
  \/ StepRaisesOnAgentId
  \/ Close

FaultSpec == FaultInit /\ [][FaultNext]_vars

\* ------------------------------------- construction and the aggregator
\* The component shapes a backend can declare: a single scalar, or a block
\* of side 2 with 1 to MaxRank dimensions.
Block(rank) == [i \in 1 .. rank |-> 2]

Shapes == {<<1>>} \cup {Block(rank) : rank \in 1 .. MaxRank}

ShapeLists == UNION {[1 .. n -> Shapes] : n \in 1 .. MaxComponents}

\* the per-agent widths the components of one get_steps result can have
\* for the declared shapes: the declared widths; one component narrowed to
\* a single column or widened by one; the last component missing; one
\* component more than declared
WidthLists(shapes) ==
  LET declared == [k \in 1 .. Len(shapes) |-> Prod(shapes[k])]
  IN {declared}
     \cup {[declared EXCEPT ![k] = 1] : k \in 1 .. Len(shapes)}
     \cup {[declared EXCEPT ![k] = @ + 1] : k \in 1 .. Len(shapes)}
     \cup (IF Len(shapes) > 1 THEN {SubSeq(declared, 1, Len(shapes) - 1)} ELSE {})
     \cup {Append(declared, 1)}

RawVal(k, a, j) == 10000 * k + 100 * a + j

\* decision_steps.obs for n agents: one array per component, its rows the
\* agents' values in C order
RawObservations(n, widths) ==
  [k \in 1 .. Len(widths) |-> [a \in 1 .. n |-> [j \in 1 .. widths[k] |-> RawVal(k, a, j)]]]

\* __init__ up to _initialize_env_info, for one replica with one agent
\* whose backend declares the given component shapes
Initialized(shapes) ==
  LET info == EnvInfo(<<1>>)
  IN /\ observation_specs = shapes
     /\ observation_shapes = None
     /\ envs = <<1>>
     /\ close_calls = <<0>>
     /\ fault = None
     /\ agent_per_envs = info.agent_per_envs
     /\ from_local_to_global = info.from_local_to_global
     /\ num_agents = info.num_agents
     /\ decision_agents = info.decision_agents
     /\ steps = <<[decision_steps |-> MakeSteps(1, DECISION, <<0>>),
                  terminal_steps |-> MakeSteps(1, TERMINAL, <<>>)]>>
     /\ set_actions = <<None>>
     /\ ret = [kind |-> "none"]
     /\ ops = <<>>
     /\ NoHost

\* the call of _define_observation_space that ends __init__
DefineObservationSpace ==
  /\ ret.kind = "none"
  /\ \E d \in {define_observation_space(observation_specs)} :
       /\ observation_shapes' = d.observation_shapes
       /\ ret' = IF d.raised THEN [kind |-> "raise", call |-> "__init__", error |-> [type |-> d.error]]
                 ELSE [kind |-> "init", combined_dim |-> d.combined_dim]
  /\ UNCHANGED <<ops, environments, host, observation_specs, envs, agent_per_envs, from_local_to_global, num_agents,
                 decision_agents, steps, set_actions, close_calls, fault>>

\* one call of aggregate_observations on a constructed orchestrator
AggregateObservations ==
  /\ observation_shapes # None
  /\ \E n \in 0 .. MaxAgents :
     \E widths \in WidthLists(observation_shapes) :
     \E observations \in {RawObservations(n, widths)} :
       ret' = IF aggregate_raises(observations)
              THEN [kind |-> "aggregate", observations |-> observations, raised |-> TRUE,
                    error |-> [type |-> "ValueError"]]
              ELSE [kind |-> "aggregate", observations |-> observations, raised |-> FALSE,
                    shape |-> aggregated_shape(observations),
                    rows |-> aggregate_observations(observations)]
  /\ UNCHANGED <<ops, environments, host, observation_specs, observation_shapes, envs, agent_per_envs,
                 from_local_to_global, num_agents, decision_agents, steps, set_actions,
                 close_calls, fault>>

AggInit == \E shapes \in ShapeLists : Initialized(shapes)

AggNext == DefineObservationSpace \/ AggregateObservations

AggSpec == AggInit /\ [][AggNext]_vars

\* ----------------------------------------- src/utils/gym_space.py
\* A gym space is a record of its class and its attributes; the attributes
\* a class does not have are left empty.
Box(shape) == [type |-> "Box", shape |-> shape, n |-> 0, nvec |-> <<>>, spaces |-> <<>>]

Discrete(n) == [type |-> "Discrete", shape |-> <<>>, n |-> n, nvec |-> <<>>, spaces |-> <<>>]

MultiDiscrete(nvec) ==
  [type |-> "MultiDiscrete", shape |-> <<Len(nvec)>>, n |-> 0, nvec |-> nvec, spaces |-> <<>>]

TupleSpace(spaces) == [type |-> "Tuple", shape |-> <<>>, n |-> 0, nvec |-> <<>>, spaces |-> spaces]

\* a Dict space: its subspaces in key order, the keys being names
DictSpace(spaces) == [type |-> "Dict", shape |-> <<>>, n |-> 0, nvec |-> <<>>, spaces |-> spaces]

LeafSpaces ==
  {Box(shape) : shape \in Shapes}
  \cup {Discrete(n) : n \in 1 .. MaxCategories}
  \cup {MultiDiscrete([i \in 1 .. k |-> c]) : k \in 1 .. MaxComponents, c \in 2 .. MaxCategories}

FlatComposites ==
  UNION {{TupleSpace(children), DictSpace(children)} :
           children \in UNION {[1 .. k -> LeafSpaces] : k \in 1 .. MaxComponents}}

\* leaves, composites of leaves, and a tuple holding a composite and a leaf
Spaces ==
  LeafSpaces \cup FlatComposites
  \cup {TupleSpace(<<inner, Discrete(MaxCategories)>>) :
          inner \in {c \in FlatComposites : Len(c.spaces) = 1}}

RECURSIVE compute_space_dimension(_)
compute_space_dimension(observation_space) ==
  CASE observation_space.type = "Box" -> observation_space.shape[Len(observation_space.shape)]
    [] observation_space.type = "Discrete" -> observation_space.n
    [] observation_space.type = "MultiDiscrete" -> SumSeq(observation_space.nvec)
    [] OTHER ->
         SumSeq([i \in 1 .. Len(observation_space.spaces) |->
                   compute_space_dimension(observation_space.spaces[i])])

\* An observation of a space for num_agents agents.  An ndarray is its
\* shape and its buffer in C order; a tuple or a dict holds one value per
\* subspace, a dict under the names "key1", "key2", ...
SampleVal(i) == i

NdArray(shape) == [kind |-> "ndarray", shape |-> shape, buffer |-> [i \in 1 .. Prod(shape) |-> SampleVal(i)],
                   items |-> <<>>]

RECURSIVE SampleOf(_, _)
SampleOf(space, n) ==
  CASE space.type = "Box" -> NdArray(<<n>> \o space.shape)
    [] space.type = "Discrete" -> NdArray(<<n>>)
    [] space.type = "MultiDiscrete" -> NdArray(<<n, Len(space.nvec)>>)
    [] space.type = "Tuple" ->
         [kind |-> "tuple", shape |-> <<>>, buffer |-> <<>>,
          items |-> [i \in 1 .. Len(space.spaces) |-> SampleOf(space.spaces[i], n)]]
    [] OTHER ->
         [kind |-> "dict", shape |-> <<>>, buffer |-> <<>>,
          items |-> [i \in 1 .. Len(space.spaces) |-> SampleOf(space.spaces[i], n)]]

\* np.array(obs, dtype=np.float32).reshape(num_agents, -1): the buffer cut
\* into num_agents rows; the cast keeps the value of every small integer
reshape(arr, n_agents) ==
  LET total == Len(arr.buffer)
      width == total \div n_agents
  IN IF total % n_agents # 0 THEN [raised |-> TRUE, error |-> "ValueError", rows |-> <<>>]
     ELSE [raised |-> FALSE, error |-> "",
           rows |-> [a \in 1 .. n_agents |-> SubSeq(arr.buffer, (a - 1) * width + 1, a * width)]]

\* np.concatenate(arrays, axis=-1) of arrays that all have n_agents rows
RECURSIVE concatenate(_, _)
concatenate(arrays, n_agents) ==
  IF arrays = <<>> THEN [a \in 1 .. n_agents |-> <<>>]
  ELSE LET rest == concatenate(Tail(arrays), n_agents)
       IN [a \in 1 .. n_agents |-> arrays[1][a] \o rest[a]]

\* flatten_observations; iterating a dict yields its keys, and np.array of
\* a key that is a name raises ValueError
RECURSIVE flatten_observations(_, _)
flatten_observations(data, n_agents) ==
  CASE data.kind = "ndarray" -> reshape(data, n_agents)
    [] data.kind = "dict" -> [raised |-> TRUE, error |-> "ValueError", rows |-> <<>>]
    [] OTHER ->
         LET parts == [i \in 1 .. Len(data.items) |-> flatten_observations(data.items[i], n_agents)]
         IN IF \E i \in 1 .. Len(parts) : parts[i].raised
            THEN [raised |-> TRUE, error |-> "ValueError", rows |-> <<>>]
            ELSE [raised |-> FALSE, error |-> "",
                  rows |-> concatenate([i \in 1 .. Len(parts) |-> parts[i].rows], n_agents)]

\* the two functions of gym_space.py applied to a space and to an
\* observation of it; no orchestrator is involved
NoOrchestrator ==
  /\ observation_specs = <<>>
  /\ observation_shapes = None
  /\ envs = <<>>
  /\ close_calls = <<>>
  /\ fault = None
  /\ agent_per_envs = <<>>
  /\ from_local_to_global = <<>>
  /\ num_agents = 0
  /\ decision_agents = <<>>
  /\ steps = <<>>
  /\ set_actions = <<>>
  /\ ops = <<>>

SpaceInit ==
  /\ NoOrchestrator
  /\ NoHost
  /\ \E space \in Spaces : \E n \in 1 .. MaxAgents :
       ret = [kind |-> "args", space |-> space, num_agents |-> n]

ComputeSpaceDimension ==
  /\ ret.kind = "args"
  /\ ret' = [kind |-> "dimension", space |-> ret.space, num_agents |-> ret.num_agents,
             dimension |-> compute_space_dimension(ret.space)]
  /\ UNCHANGED <<ops, environments, host, observation_specs, observation_shapes, envs, agent_per_envs,
                 from_local_to_global, num_agents, decision_agents, steps, set_actions,
                 close_calls, fault>>

FlattenObservations ==
  /\ ret.kind = "dimension"
  /\ ret' = [kind |-> "flattened", space |-> ret.space, num_agents |-> ret.num_agents,
             dimension |-> ret.dimension,
             flat |-> flatten_observations(SampleOf(ret.space, ret.num_agents), ret.num_agents)]
  /\ UNCHANGED <<ops, environments, host, observation_specs, observation_shapes, envs, agent_per_envs,
                 from_local_to_global, num_agents, decision_agents, steps, set_actions,
                 close_calls, fault>>

SpaceNext == ComputeSpaceDimension \/ FlattenObservations

SpaceSpec == SpaceInit /\ [][SpaceNext]_vars

\* ------------------------------------------------------ the hosting APIs
\* Four classes host environments behind a registry self.environments, a
\* dict from env_key to the environment made under that key: EnvGateway
\* and EnvHost (Flask), EnvAPI (FastAPI) and WSEnvAPI (WebSocket).
\* the env_key that is falsy in Python: None, or the empty string
EmptyKey == 0

\* the keys a request can name
EnvKeys == EmptyKey .. MaxKeys

Hosts == {"EnvGateway", "EnvHost", "EnvAPI", "WSEnvAPI"}

\* the requests that look an environment up
Methods == {"reset", "step", "action_space", "observation_space"}

\* self.environments.keys(); the dict is kept as the list of its entries in
\* insertion order
Keys(registry) == {registry[i].env_key : i \in 1 .. Len(registry)}

\* self.environments[env_key] = {...}: a key already present keeps its place
put(registry, env_key, is_vectorized) ==
  LET entry == [env_key |-> env_key, is_vectorized |-> is_vectorized]
  IN IF env_key \in Keys(registry)
     THEN [i \in 1 .. Len(registry) |-> IF registry[i].env_key = env_key THEN entry ELSE registry[i]]
     ELSE Append(registry, entry)

\* del self.environments[env_key]
RECURSIVE del(_, _)
del(registry, env_key) ==
  IF registry = <<>> THEN <<>>
  ELSE (IF registry[1].env_key = env_key THEN <<>> ELSE <<registry[1]>>) \o del(Tail(registry), env_key)

\* what a handler answers: an error, a message or the result of the
\* environment's method
Response(kind, text) == [kind |-> kind, text |-> text]

\* what a handler leaves: the registry, the answer and the calls it made
\* on hosted environments
Outcome(registry, response, called) ==
  [environments |-> registry, response |-> response, ops |-> called]

\* make and make_vec of the four classes: a new environment is stored under
\* env_key, over whatever was there; the backend is taken to be registered
make(registry, env_key, is_vectorized) ==
  Outcome(put(registry, env_key, is_vectorized), Response("message", "created"), <<>>)

\* "for key in list(self.environments.keys()): env.close(); del ..."
close_all(registry, text) ==
  Outcome(<<>>, Response("message", text),
          [i \in 1 .. Len(registry) |-> Op("close", registry[i].env_key)])

\* env.close() and del self.environments[env_key] for a registered key
close_one(registry, env_key) ==
  Outcome(del(registry, env_key), Response("message", "closed successfully"),
          <<Op("close", env_key)>>)

\* reset, step, action_space and observation_space of EnvGateway
EnvGateway_lookup(registry, method, env_key) ==
  IF env_key \notin Keys(registry)
  THEN Outcome(registry, Response("error", "Environment not initialized. Please call /make first."), <<>>)
  ELSE Outcome(registry, Response("result", method), <<Op(method, env_key)>>)

\* EnvGateway.close
EnvGateway_close(registry, env_key) ==
  IF env_key \in Keys(registry) THEN close_one(registry, env_key)
  ELSE Outcome(registry, Response("error", "No environment with this key to close."), <<>>)

\* reset, step, action_space and observation_space of EnvHost
EnvHost_lookup(registry, method, env_key) ==
  IF env_key \notin Keys(registry)
  THEN Outcome(registry, Response("error", "Environment not initialized. Please call /make first."), <<>>)
  ELSE Outcome(registry, Response("result", method), <<Op(method, env_key)>>)

\* EnvHost.close: with an empty registry it answers with a message before
\* it looks at the key
EnvHost_close(registry, env_key) ==
  IF Len(registry) = 0
  THEN Outcome(registry, Response("message", "No environment to close."), <<>>)
  ELSE IF env_key \in Keys(registry) THEN close_one(registry, env_key)
  ELSE Outcome(registry, Response("error", "No environment with this key to close."), <<>>)

\* reset, step, action_space and observation_space of EnvAPI: the
\* HTTPException of status 400 is the error answer
EnvAPI_lookup(registry, method, env_key) ==
  IF env_key \notin Keys(registry)
  THEN Outcome(registry, Response("error", "Environment not initialized. Please call /make first."), <<>>)
  ELSE Outcome(registry, Response("result", method), <<Op(method, env_key)>>)

\* EnvAPI.close: "if not env_key" closes every environment
EnvAPI_close(registry, env_key) ==
  IF env_key = EmptyKey THEN close_all(registry, "All environments closed.")
  ELSE IF env_key \in Keys(registry) THEN close_one(registry, env_key)
  ELSE Outcome(registry, Response("error", "No environment with this key to close."), <<>>)

\* reset, step, action_space and observation_space of WSEnvAPI; the
\* environment's own step is taken not to raise
WSEnvAPI_lookup(registry, method, env_key) ==
  IF env_key \notin Keys(registry)
  THEN Outcome(registry, Response("error", "Environment not initialized. Please call make first."), <<>>)
  ELSE Outcome(registry, Response("result", method), <<Op(method, env_key)>>)

\* WSEnvAPI.close: a key that is not found closes every environment
WSEnvAPI_close(registry, env_key) ==
  IF env_key \notin Keys(registry) THEN close_all(registry, "All environments closed successfully.")
  ELSE close_one(registry, env_key)

\* the handler of the class for a request that looks an environment up
lookup(class, registry, method, env_key) ==
  CASE class = "EnvGateway" -> EnvGateway_lookup(registry, method, env_key)
    [] class = "EnvHost"    -> EnvHost_lookup(registry, method, env_key)
    [] class = "EnvAPI"     -> EnvAPI_lookup(registry, method, env_key)
    [] class = "WSEnvAPI"   -> WSEnvAPI_lookup(registry, method, env_key)

\* the close handler of the class
host_close(class, registry, env_key) ==
  CASE class = "EnvGateway" -> EnvGateway_close(registry, env_key)
    [] class = "EnvHost"    -> EnvHost_close(registry, env_key)
    [] class = "EnvAPI"     -> EnvAPI_close(registry, env_key)
    [] class = "WSEnvAPI"   -> WSEnvAPI_close(registry, env_key)

\* a request handled: the registry, the calls made and the answer sent
Handled(method, env_key, o) ==
  /\ environments' = o.environments
  /\ ops' = o.ops
  /\ ret' = [kind |-> "response", method |-> method, env_key |-> env_key, response |-> o.response]
  /\ UNCHANGED <<host, observation_specs, observation_shapes, envs, agent_per_envs,
                 from_local_to_global, num_agents, decision_agents, steps, set_actions,
                 close_calls, fault>>

HostMake ==
  \E env_key \in EnvKeys : Handled("make", env_key, make(environments, env_key, FALSE))

HostMakeVec ==
  \E env_key \in EnvKeys : Handled("make_vec", env_key, make(environments, env_key, TRUE))

HostLookup ==
  \E method \in Methods : \E env_key \in EnvKeys :
    Handled(method, env_key, lookup(host, environments, method, env_key))

HostClose ==
  \E env_key \in EnvKeys : Handled("close", env_key, host_close(host, environments, env_key))

\* a hosting API after __init__: self.environments = {}
HostInit ==
  /\ NoOrchestrator
  /\ environments = <<>>
  /\ host \in Hosts
  /\ ret = [kind |-> "none"]

HostNext == HostMake \/ HostMakeVec \/ HostLookup \/ HostClose

HostSpec == HostInit /\ [][HostNext]_vars

\* ================================================================ claims
\* vocabulary of the properties below
Envs == 1 .. Len(agent_per_envs)

LocalIds(r) == Range(agent_per_envs[r])

GlobalOf(r, l) == from_local_to_global[r][l + 1]

DecisionIds(r) == ToSet(steps[r].decision_steps.agent_id)

TerminalIds(r) == ToSet(steps[r].terminal_steps.agent_id)

Common(r) == common_agent_ids(steps[r].decision_steps, steps[r].terminal_steps)

DecisionOnly(r) == decision_only_agent_ids(steps[r].decision_steps, steps[r].terminal_steps)

TerminalOnly(r) == terminal_only_agent_ids(steps[r].decision_steps, steps[r].terminal_steps)

\* the position at which the backend listed agent a
PosOf(ids, a) == CHOOSE p \in 1 .. Len(ids) : ids[p] = a

\* the backend's observation of the agent at position p: its components
\* one after the other, in declaration order
RECURSIVE ComponentsFrom(_, _, _)
ComponentsFrom(st, p, k) ==
  IF k > Len(st.obs) THEN <<>> ELSE st.obs[k][p] \o ComponentsFrom(st, p, k + 1)

DecisionObs(r, a) ==
  ComponentsFrom(steps[r].decision_steps, PosOf(steps[r].decision_steps.agent_id, a), 1)

TerminalObs(r, a) ==
  ComponentsFrom(steps[r].terminal_steps, PosOf(steps[r].terminal_steps.agent_id, a), 1)

DecisionReward(r, a) ==
  steps[r].decision_steps.reward[PosOf(steps[r].decision_steps.agent_id, a)]

TerminalReward(r, a) ==
  steps[r].terminal_steps.reward[PosOf(steps[r].terminal_steps.agent_id, a)]

StepReturned == ret.kind = "step"

ResetReturned == ret.kind = "reset"

\* C1: on every tick and for every replica, common, decision_only and
\* terminal_only are pairwise disjoint and their union is
\* decision_ids \cup terminal_ids.
C1_ReconciliationPartition ==
  StepReturned =>
    \A r \in Envs :
      /\ Common(r) \cap DecisionOnly(r) = {}
      /\ Common(r) \cap TerminalOnly(r) = {}
      /\ DecisionOnly(r) \cap TerminalOnly(r) = {}
      /\ Common(r) \cup DecisionOnly(r) \cup TerminalOnly(r) = DecisionIds(r) \cup TerminalIds(r)

\* a tick on which one replica reports overlapping lists with an agent left
\* over on the decision side, and some replica has a terminal-only agent
C1_Witness ==
  /\ StepReturned
  /\ \E r \in Envs : Common(r) # {} /\ DecisionOnly(r) # {}
  /\ \E r \in Envs : TerminalOnly(r) # {}

\* C2: an agent reported in both lists gets observation = its decision
\* observation, final_observation = its terminal observation, reward = its
\* terminal reward and terminated = true; the decision reward is not used.
C2_CommonRow ==
  StepReturned =>
    \A r \in Envs : \A a \in Common(r) :
      /\ ret.observations[GlobalOf(r, a) + 1] = Some(DecisionObs(r, a))
      /\ ret.info.final_observation[GlobalOf(r, a) + 1] = Some(TerminalObs(r, a))
      /\ ret.rewards[GlobalOf(r, a) + 1] = Some(TerminalReward(r, a))
      /\ ret.rewards[GlobalOf(r, a) + 1] # Some(DecisionReward(r, a))
      /\ ret.terminated[GlobalOf(r, a) + 1] = Some(TRUE)

\* a common agent of the second replica, listed at different positions of
\* the two lists of a replica that has another agent before it
C2_Witness ==
  /\ StepReturned
  /\ \E r \in Envs : \E a \in Common(r) :
       /\ GlobalOf(r, a) # a
       /\ ret.terminated[GlobalOf(r, a) + 1] = Some(TRUE)
  /\ \E r \in Envs : \E a \in Common(r) :
       PosOf(steps[r].decision_steps.agent_id, a) # PosOf(steps[r].terminal_steps.agent_id, a)

\* C3 as stated: final_observation[i] is set if and only if agent i was
\* terminal this tick (common or terminal_only).
C3_FinalObservationIffTerminal ==
  StepReturned =>
    \A r \in Envs : \A l \in LocalIds(r) :
      (ret.info.final_observation[GlobalOf(r, l) + 1] # None)
        <=> (l \in Common(r) \cup TerminalOnly(r))

\* C3 amended: final_observation[i] is set if and only if agent i was
\* reported in both lists this tick (common); it is never set for a
\* decision_only agent nor for a terminal_only agent.
C3_FinalObservationIffCommon ==
  StepReturned =>
    \A r \in Envs : \A l \in LocalIds(r) :
      (ret.info.final_observation[GlobalOf(r, l) + 1] # None) <=> (l \in Common(r))

\* a tick with a common agent, a terminal-only agent and a decision-only one
C3_Witness ==
  /\ StepReturned
  /\ \E r \in Envs : \E a \in Common(r) : ret.info.final_observation[GlobalOf(r, a) + 1] # None
  /\ \E r \in Envs : \E a \in TerminalOnly(r) : ret.info.final_observation[GlobalOf(r, a) + 1] = None
  /\ \E r \in Envs : DecisionOnly(r) # {}

\* C4: an agent reported only in terminal_ids gets observation = its
\* terminal observation, reward = its terminal reward, terminated = true,
\* and no final_observation.
C4_TerminalOnlyRow ==
  StepReturned =>
    \A r \in Envs : \A a \in TerminalOnly(r) :
      /\ ret.observations[GlobalOf(r, a) + 1] = Some(TerminalObs(r, a))
      /\ ret.rewards[GlobalOf(r, a) + 1] = Some(TerminalReward(r, a))
      /\ ret.terminated[GlobalOf(r, a) + 1] = Some(TRUE)
      /\ ret.info.final_observation[GlobalOf(r, a) + 1] = None

\* a terminal-only agent that is not the first of the terminal list, and a
\* terminal-only agent of the second replica
C4_Witness ==
  /\ StepReturned
  /\ \E r \in Envs : \E a \in TerminalOnly(r) :
       PosOf(steps[r].terminal_steps.agent_id, a) > 1
  /\ \E r \in Envs : \E a \in TerminalOnly(r) :
       GlobalOf(r, a) # a /\ ret.terminated[GlobalOf(r, a) + 1] = Some(TRUE)

\* C5: an agent reported only in decision_ids gets observation = its
\* decision observation, reward = its decision reward, terminated = false,
\* truncated = false and no final_observation.
C5_DecisionOnlyRow ==
  StepReturned =>
    \A r \in Envs : \A a \in DecisionOnly(r) :
      /\ ret.observations[GlobalOf(r, a) + 1] = Some(DecisionObs(r, a))
      /\ ret.rewards[GlobalOf(r, a) + 1] = Some(DecisionReward(r, a))
      /\ ret.terminated[GlobalOf(r, a) + 1] = Some(FALSE)
      /\ ret.truncated[GlobalOf(r, a) + 1] = Some(FALSE)
      /\ ret.info.final_observation[GlobalOf(r, a) + 1] = None

\* a decision-only agent of the second replica next to a terminal agent of
\* the first, and a decision-only agent listed after another agent
C5_Witness ==
  /\ StepReturned
  /\ \E r \in Envs : \E a \in DecisionOnly(r) :
       GlobalOf(r, a) # a /\ ret.terminated[GlobalOf(r, a) + 1] = Some(FALSE)
  /\ \E r \in Envs : \E a \in DecisionOnly(r) :
       PosOf(steps[r].decision_steps.agent_id, a) > 1
  /\ \E r \in Envs : TerminalIds(r) # {}

\* the agents of the replicas before replica r
AgentsBefore(r) == SumSeq(SubSeq(agent_per_envs, 1, r - 1))

\* C6: the local-to-global map built at construction is a bijection from
\* the pairs (replica, local id) onto 0..total_agents-1, replica-major:
\* global(r, l) = (agents of the replicas before r) + l, and total_agents is
\* the sum of the counts.
C6_IndexMapBijection ==
  /\ Len(from_local_to_global) = Len(agent_per_envs)
  /\ num_agents = SumSeq(agent_per_envs)
  /\ \A r \in Envs :
       /\ Len(from_local_to_global[r]) = agent_per_envs[r]
       /\ \A l \in LocalIds(r) : GlobalOf(r, l) = AgentsBefore(r) + l
  /\ UNION {{GlobalOf(r, l) : l \in LocalIds(r)} : r \in Envs} = Range(num_agents)
  /\ \A r1, r2 \in Envs : \A l1 \in LocalIds(r1) : \A l2 \in LocalIds(r2) :
       GlobalOf(r1, l1) = GlobalOf(r2, l2) => (r1 = r2 /\ l1 = l2)
  /\ \A r \in Envs : r + 1 \in Envs =>
       \A l1 \in LocalIds(r) : \A l2 \in LocalIds(r + 1) : GlobalOf(r, l1) < GlobalOf(r + 1, l2)

\* two agents in the first replica and one in the second, which gets index 2
C6_Witness ==
  /\ ret.kind = "none"
  /\ agent_per_envs = Scenario
  /\ GlobalOf(1, 0) = 0 /\ GlobalOf(1, 1) = 1 /\ GlobalOf(2, 0) = 2
  /\ num_agents = 3

\* C7 as stated: in every batch step returns, every global index is in
\* exactly one of the three categories and none of its observation, reward,
\* terminated and truncated entries is left unset.
C7_EveryIndexCategorised ==
  StepReturned =>
    \A r \in Envs : \A l \in LocalIds(r) :
      /\ Cardinality({c \in {1, 2, 3} :
                        \/ c = 1 /\ l \in Common(r)
                        \/ c = 2 /\ l \in DecisionOnly(r)
                        \/ c = 3 /\ l \in TerminalOnly(r)}) = 1
      /\ ret.observations[GlobalOf(r, l) + 1] # None
      /\ ret.rewards[GlobalOf(r, l) + 1] # None
      /\ ret.terminated[GlobalOf(r, l) + 1] # None
      /\ ret.truncated[GlobalOf(r, l) + 1] # None

\* C8 as stated: a tick on which some registered agent is in neither list
\* of its replica does not return a batch (step raises instead).
C8_MissingAgentRaises ==
  (\E r \in Envs : \E l \in LocalIds(r) : l \notin DecisionIds(r) \cup TerminalIds(r))
    => ~StepReturned

\* the action rows set_actions received for replica r in the last step call
SentRows(sent, r) == IF sent[r] = None THEN <<>> ELSE sent[r][1].continuous

\* C9: in every step call after a first return, each replica is sent
\* exactly the actions of the agents of its previous decision_ids: as many
\* rows as that set has members, each row the action at the global index of
\* one of them, and none for an agent that was terminal-only or absent.
C9_ActionsForPreviousDecisionAgents ==
  [][(ret.kind # "none" /\ ret'.kind = "step") =>
       \A r \in Envs :
         /\ Len(SentRows(set_actions', r)) = Cardinality(DecisionIds(r))
         /\ {SentRows(set_actions', r)[i][1] : i \in 1 .. Len(SentRows(set_actions', r))}
              = {ActionVal(GlobalOf(r, l)) : l \in DecisionIds(r)}]_vars

\* a step in which a replica with two agents was sent a single action row,
\* that of its second agent
C9_Witness ==
  /\ StepReturned
  /\ \E r \in Envs :
       /\ agent_per_envs[r] = 2
       /\ SentRows(set_actions, r) = << <<ActionVal(GlobalOf(r, 1))>> >>

\* C10 as stated: the batch reset returns has an observation for every
\* global index, flags no agent terminated or truncated, and carries no
\* final observation.
C10_ResetCoversEveryAgent ==
  ResetReturned =>
    /\ \A g \in 1 .. num_agents : ret.observations[g] # None
    /\ "terminated" \in DOMAIN ret => \A g \in 1 .. num_agents : ret.terminated[g] = Some(FALSE)
    /\ "truncated" \in DOMAIN ret => \A g \in 1 .. num_agents : ret.truncated[g] = Some(FALSE)
    /\ "final_observation" \notin DOMAIN ret.info

\* the agent count replica r reports in the steps last read from it:
\* len(decision_steps), as _initialize_env_info counts agents
ReportedCount(r) == Len(steps[r].decision_steps.agent_id)

\* C11 as stated: after every reset the index map and total_agents agree
\* with the agent counts the replicas report after that reset, the map
\* being rebuilt from those counts.
C11_ResetRebuildsIndexMap ==
  ResetReturned =>
    LET info == EnvInfo([r \in Envs |-> ReportedCount(r)])
    IN /\ agent_per_envs = info.agent_per_envs
       /\ from_local_to_global = info.from_local_to_global
       /\ num_agents = info.num_agents

\* ---------------------------------------------- failures and life cycle
\* the last reset or step call met a fault in the call named
FaultIn(call) == fault # None /\ fault[1].call = call

Raised == ret.kind = "raise"

\* C12: when a backend call or a reconciliation step of some replica raises
\* during a step call, the call raises too and returns no batch: none of
\* the arrays filled from the replicas before it reaches the learner.
C12_RaisedStepReturnsNoBatch ==
  (FaultIn("step") /\ ret.kind # "close") =>
    /\ Raised
    /\ ret.call = "step"
    /\ DOMAIN ret \cap {"observations", "rewards", "terminated", "truncated", "info"} = {}

\* a step call that failed at the second replica, in get_steps or in the
\* reconciliation, after the first replica's agent had been reconciled
C12_Witness ==
  /\ FaultIn("step")
  /\ fault[1].replica = 2
  /\ fault[1].at \in {"get_steps", "agent_id"}
  /\ agent_per_envs[1] = 1
  /\ steps[1].terminal_steps.agent_id = <<0>>
  /\ Raised

\* C13 as stated: when the backend of replica r raises during reset or
\* step, the error that reaches the learner identifies replica r.
C13_ErrorIdentifiesReplica ==
  (Raised /\ fault[1].at # "agent_id") =>
    /\ "replica" \in DOMAIN ret.error
    /\ ret.error.replica = fault[1].replica - 1

\* C14 as stated: once a backend has raised during reset or step, no step
\* call returns a batch until reset is called again.
C14_FailedReplicaUnusable ==
  [][(Raised /\ fault[1].at # "agent_id") => ret'.kind # "step"]_vars

\* the ids replica r reported in the steps last read from it
ReportedIds(r) == DecisionIds(r) \cup TerminalIds(r)

\* the agents replica r reports are not the agents registered for it
CountDiffers(r) ==
  \/ \E a \in ReportedIds(r) : a >= agent_per_envs[r]
  \/ Cardinality(ReportedIds(r)) < agent_per_envs[r]

\* C15 as stated: a step call in which some replica's agents differ from
\* the registered ones (an id outside the registered range, or fewer
\* agents than registered) fails, and the index map stays as it was.
C15_StructuralChangeFails ==
  /\ (StepReturned /\ envs # <<>>) => \A r \in Envs : ~CountDiffers(r)
  /\ from_local_to_global = EnvInfo(agent_per_envs).from_local_to_global

\* C17: close closes every replica handle exactly once however often it is
\* called: after a close call returned the orchestrator holds no handle
\* and every replica was closed once, and no replica is ever closed twice.
C17_CloseIdempotent ==
  /\ \A r \in 1 .. Len(close_calls) : close_calls[r] <= 1
  /\ ret.kind = "close" => (envs = <<>> /\ \A r \in 1 .. Len(close_calls) : close_calls[r] = 1)

\* a close call that found no handle left (an earlier close took them),
\* after a reset that had failed: both replicas were closed once
C17_Witness ==
  /\ ret.kind = "close"
  /\ ret.closed = 0
  /\ FaultIn("reset")
  /\ Len(close_calls) >= 2
  /\ \A r \in 1 .. Len(close_calls) : close_calls[r] = 1

\* the truncation flag the backend reported for terminal agent a of replica r
TerminalInterrupted(r, a) ==
  steps[r].terminal_steps.interrupted[PosOf(steps[r].terminal_steps.agent_id, a)]

\* C16 as stated: the truncated entry of every agent the backend reported
\* as terminal equals the truncation flag the backend reported for it.
C16_TruncatedPassesThrough ==
  StepReturned =>
    \A r \in Envs : \A l \in TerminalIds(r) :
      ret.truncated[GlobalOf(r, l) + 1] = Some(TerminalInterrupted(r, l))

\* ------------------------------------------ construction and aggregation
\* the number of agents passed to the last aggregate_observations call
PassedAgents == Len(ret.observations[1])

\* the sum over the components of the descriptor of their flattened sizes
DescriptorWidth == SumSeq([k \in 1 .. Len(observation_shapes) |-> Prod(observation_shapes[k])])

\* C18: the array aggregate_observations returns has one row per agent
\* passed in and as many columns as the flattened sizes of the descriptor's
\* components add up to; with zero agents the call raises nothing and
\* returns zero rows of that width.
C18_AggregatedShape ==
  ret.kind = "aggregate" =>
    /\ ~ret.raised =>
         /\ ret.shape = <<PassedAgents, DescriptorWidth>>
         /\ Len(ret.rows) = PassedAgents
         /\ \A a \in 1 .. Len(ret.rows) : Len(ret.rows[a]) = DescriptorWidth
    /\ PassedAgents = 0 => (~ret.raised /\ ret.shape = <<0, DescriptorWidth>>)

\* two agents aggregated over a matrix component and a vector component
C18_Witness ==
  /\ ret.kind = "aggregate"
  /\ ~ret.raised
  /\ observation_shapes = <<Block(2), Block(1)>>
  /\ ret.shape = <<2, 6>>

\* C19 as stated: construction raises exactly when some observation
\* component of the backend has three or more dimensions.
C19_ImageRanksRejected ==
  ret.kind \in {"init", "raise"} =>
    ((ret.kind = "raise") <=> (\E k \in 1 .. Len(observation_specs) : Len(observation_specs[k]) >= 3))

\* the observations passed in disagree with the descriptor: another number
\* of components, or a component of another width
Disagrees(observations) ==
  \/ Len(observations) # Len(observation_shapes)
  \/ \E k \in 1 .. Len(observations) :
       k <= Len(observation_shapes) /\ Len(observations[k][1]) # Prod(observation_shapes[k])

\* C20 as stated: aggregating observations that disagree with the
\* descriptor fixed at construction raises instead of producing rows.
C20_MismatchRaises ==
  (ret.kind = "aggregate" /\ PassedAgents >= 1 /\ Disagrees(ret.observations)) => ret.raised

\* ------------------------------------------------------- gym_space.py
\* C21 as stated: for every supported space, compute_space_dimension
\* returns the width of the rows flatten_observations produces for an
\* observation of that space.
C21_DimensionIsFlattenedWidth ==
  ret.kind = "flattened" =>
    /\ ~ret.flat.raised
    /\ \A a \in 1 .. ret.num_agents : Len(ret.flat.rows[a]) = ret.dimension

\* the positions of ops at which the named operation was invoked
OpsAt(name) == {i \in 1 .. Len(ops) : ops[i].op = name}

\* the replicas the named operation was invoked on, in the order of the calls
RECURSIVE ReplicasOf(_, _)
ReplicasOf(name, called) ==
  IF called = <<>> THEN <<>>
  ELSE (IF called[1].op = name THEN <<called[1].replica>> ELSE <<>>) \o ReplicasOf(name, Tail(called))

\* the last call was a step call, whether it returned or raised
StepCalled == StepReturned \/ (Raised /\ ret.call = "step")

\* C22: within one step call, returning or raising, every replica has had
\* its actions set and has been stepped before the results of any replica
\* are read: each get_steps (and with it the writes into the batch that
\* follow it) comes after the set_actions and the step of every replica.
C22_DispatchBeforeCollect ==
  StepCalled =>
    \A i \in OpsAt("get_steps") :
      /\ \A r \in 1 .. Len(envs) : \E j \in 1 .. (i - 1) : ops[j] = Op("step", envs[r])
      /\ \A j \in OpsAt("step") \cup OpsAt("set_actions") : j < i

\* a step call over two replicas that returned after reading both, one of
\* them having been given actions
C22_Witness ==
  /\ StepReturned
  /\ Len(envs) >= 2
  /\ Cardinality(OpsAt("get_steps")) >= 2
  /\ OpsAt("set_actions") # {}

\* C23: every step call that returns a batch has invoked the backend step
\* exactly once on every replica, in replica-index order, also on a replica
\* with no decision agent, on which no actions are set.
C23_Lockstep ==
  StepReturned => ReplicasOf("step", ops) = envs

\* a returned step call in which a replica holding agents had no decision
\* agent: no actions were set on it and it was stepped all the same
C23_Witness ==
  /\ StepReturned
  /\ \E r \in 1 .. Len(envs) :
       /\ agent_per_envs[r] > 0
       /\ set_actions[r] = None
       /\ Op("set_actions", envs[r]) \notin ToSet(ops)
       /\ Op("step", envs[r]) \in ToSet(ops)

\* C24: no step call, whether it returns or raises, changes the
\* local-to-global map, the per-replica agent counts or the total number of
\* agents: the global index of a (replica, local id) is the same after it.
C24_IndexMapReadOnly ==
  [][(ret'.kind = "step" \/ (ret'.kind = "raise" /\ ret'.call = "step")) =>
       /\ from_local_to_global' = from_local_to_global
       /\ agent_per_envs' = agent_per_envs
       /\ num_agents' = num_agents]_vars

\* a step call was made in which a replica reported other agents than the
\* ones registered for it, and the map still gives every registered agent
\* its index
C24_Witness ==
  /\ StepCalled
  /\ \E r \in Envs : CountDiffers(r)
  /\ \A r \in Envs : Len(from_local_to_global[r]) = agent_per_envs[r]

\* the first column of component k, counted from 0: the sizes of the
\* components declared before it
OffsetOf(k) == SumSeq([i \in 1 .. (k - 1) |-> Prod(observation_shapes[i])])

\* the flattened components of agent a, one after the other from component k on
RECURSIVE ConcatenatedFrom(_, _, _)
ConcatenatedFrom(observations, a, k) ==
  IF k > Len(observations) THEN <<>>
  ELSE observations[k][a] \o ConcatenatedFrom(observations, a, k + 1)

\* C25: for observations that agree with the descriptor, every row a of
\* aggregate_observations holds, for every component k, the flattened
\* values of component k for agent a in the columns from offset_k to
\* offset_k + size_k: the row is the concatenation of the agent's
\* components in declaration order.
C25_RowsConcatenateComponents ==
  (ret.kind = "aggregate" /\ ~ret.raised /\ PassedAgents >= 1 /\ ~Disagrees(ret.observations)) =>
    \A a \in 1 .. PassedAgents :
      /\ \A k \in 1 .. Len(observation_shapes) :
           \A j \in 1 .. Prod(observation_shapes[k]) :
             ret.rows[a][OffsetOf(k) + j] = ret.observations[k][a][j]
      /\ ret.rows[a] = ConcatenatedFrom(ret.observations, a, 1)

\* two agents aggregated over two components of more than one column each,
\* the second agent's second component starting at its offset
C25_Witness ==
  /\ ret.kind = "aggregate"
  /\ ~ret.raised
  /\ PassedAgents = 2
  /\ ~Disagrees(ret.observations)
  /\ Len(observation_shapes) = 2
  /\ \A k \in 1 .. 2 : Prod(observation_shapes[k]) >= 2
  /\ ret.rows[2][OffsetOf(2) + 1] = RawVal(2, 2, 1)

\* C26 as stated: a step call that raises leaves the decision masks as they
\* were before the call.
C26_RaisedStepKeepsMasks ==
  [][(ret'.kind = "raise" /\ ret'.call = "step") => decision_agents' = decision_agents]_vars

\* C27 as stated: in every step call after a first return, the backend of
\* each replica applies row i of the actions it is sent to the i-th agent of
\* the decision list it returned last, and that row is the learner's action
\* at the global index of that agent, in whatever order the list was.
C27_ActionReachesItsAgent ==
  [][(ret.kind # "none" /\ ret'.kind = "step") =>
       \A r \in Envs :
         \A i \in 1 .. Len(steps[r].decision_steps.agent_id) :
           /\ i <= Len(SentRows(set_actions', r))
           /\ SentRows(set_actions', r)[i][1]
                = ActionVal(GlobalOf(r, steps[r].decision_steps.agent_id[i]))]_vars

\* C28: after every reset or step call that returns, the mask entry of
\* replica r and local id l is true exactly when l is in the decision_ids
\* replica r reported in that call; an entry of an earlier tick does not
\* persist.
C28_MaskIsLastDecisionIds ==
  (StepReturned \/ ResetReturned) =>
    \A r \in Envs :
      /\ Len(decision_agents[r]) = agent_per_envs[r]
      /\ \A l \in LocalIds(r) : decision_agents[r][l + 1] <=> (l \in DecisionIds(r))

\* a returned step call in which a replica was sent actions for more agents
\* than ask for a decision now: an agent that was in the previous
\* decision_ids is not in the new ones, and its mask entry is false
C28_Witness ==
  /\ StepReturned
  /\ \E r \in Envs :
       /\ Len(SentRows(set_actions, r)) > Cardinality(DecisionIds(r))
       /\ \E l \in LocalIds(r) : ~decision_agents[r][l + 1]

\* close has returned at some point: every replica handle was closed
CloseReturned == \E r \in 1 .. Len(close_calls) : close_calls[r] >= 1

\* C29: once close has returned, no later reset, step or close call invokes
\* any operation (reset, set_actions, step, get_steps, close) on the backend
\* of any replica.
C29_NoBackendCallAfterClose ==
  [][CloseReturned => ops' = <<>>]_vars

\* a step or reset call made after close returned, which came back without
\* a call on any backend, every replica having been closed exactly once
C29_Witness ==
  /\ CloseReturned
  /\ ret.kind \in {"step", "reset"}
  /\ ops = <<>>
  /\ \A r \in 1 .. Len(close_calls) : close_calls[r] = 1

\* ------------------------------------------------------ the hosting APIs
\* C30 as stated: in each of the four hosting APIs a reset, step, space
\* query or close naming an env_key that is not in the registry is answered
\* with an error and leaves the registry as it was, making no call on any
\* hosted environment; close on a registered key removes that entry and no
\* other.
C30_UnknownKeyIsError ==
  [][(ret'.kind = "response" /\ ret'.method \in Methods \cup {"close"}) =>
       /\ ret'.env_key \notin Keys(environments) =>
            /\ ret'.response.kind = "error"
            /\ environments' = environments
            /\ ops' = <<>>
       /\ (ret'.method = "close" /\ ret'.env_key \in Keys(environments)) =>
            environments' = del(environments, ret'.env_key)]_vars

====
